---------------------------- MODULE Spec2Model ----------------------------
(***************************************************************************)
(* A model of ipfs::Client (src/src/client.cc): the endpoint operations    *)
(* that reshape a daemon reply, the URL builder, and the session           *)
(* life cycle with Abort/Reset.                                            *)
(*                                                                         *)
(* A JSON value is a pair <<tag, payload>> (json[1] is its type, json[2]   *)
(* what it holds); a reply body is a sequence of                           *)
(* tokens, each token either the newline "\n" or the text of one JSON      *)
(* document (or of a malformed fragment).                                  *)
(***************************************************************************)
EXTENDS Integers, Sequences, FiniteSets, TLC

VARIABLES
  pc,        \* position of the calling thread: "idle" or "done"
  call,      \* the operation invoked, its argument, the caller's output before the call, the transport's reply
  output,    \* the caller's output parameter (Json* / std::string*)
  outcome,   \* how the operation ended: Ok or the exception thrown
  request,   \* the URL builder's inputs: url_prefix_, timeout_value_, path, parameters
  url,       \* the URL MakeUrl returned
  sess,      \* the Client objects: live, http_, url_prefix_, timeout_value_
  heap,      \* the Transport objects, by address: alive, stopped, op
  data,      \* per session, the data call of the thread using it
  ctl        \* per session, which of Abort and Reset was invoked last on its Transport

opvars == <<pc, call, output, outcome>>
urlvars == <<request, url>>
sessvars == <<sess, heap, data, ctl>>
vars == <<pc, call, output, outcome, request, url, sess, heap, data, ctl>>

(***************************************************************************)
(* Bounds                                                                  *)
(***************************************************************************)
MaxLines == 4
MaxParams == 2
MaxSessions == 2

(***************************************************************************)
(* nlohmann::json values                                                   *)
(***************************************************************************)
JNull == <<"null", <<>>>>
JStr(s) == <<"str", s>>
JNum(n) == <<"num", n>>
JArr(s) == <<"arr", s>>
JObj(f) == <<"obj", f>>

NL == "\n"

\* Reply lines of routing/findpeer
T_RespNull == "{\"Responses\":null}"
T_RespX == "{\"Responses\":[{\"Addrs\":[\"/ip4/1\"],\"ID\":\"X\"}]}"
T_RespY == "{\"Responses\":[{\"Addrs\":[\"/ip4/2\"],\"ID\":\"Y\"}]}"
T_RespYX == "{\"Responses\":[{\"Addrs\":[\"/ip4/2\"],\"ID\":\"Y\"},{\"Addrs\":[\"/ip4/3\"],\"ID\":\"X\"}]}"
T_RespStr == "{\"Responses\":\"none\"}"
T_NoResp == "{\"Type\":6}"
\* Reply lines of add
T_FooBytes == "{\"Name\":\"foo.txt\",\"Bytes\":4}"
T_FooHash == "{\"Name\":\"foo.txt\",\"Hash\":\"H_FOO\"}"
T_BarBytes == "{\"Name\":\"bar.txt\",\"Bytes\":2}"
T_BarHash == "{\"Name\":\"bar.txt\",\"Hash\":\"H_BAR\"}"
T_NoName == "{\"Bytes\":7}"
\* Single-document replies
T_Empty == "{}"
T_Id == "{\"ID\":\"QmPeer\"}"
T_Config == "{\"Key\":\"Datastore\",\"Value\":{\"GCPeriod\":\"1h\"}}"
T_KeyGen == "{\"Id\":\"QmKey\",\"Name\":\"k1\"}"
T_KeyList == "{\"Keys\":[{\"Id\":\"QmKey\",\"Name\":\"k1\"}]}"
T_Publish == "{\"Name\":\"QmKey\",\"Value\":\"/ipfs/QmA\"}"
T_Resolve == "{\"Path\":\"/ipfs/QmA\"}"
T_DagPut == "{\"Cid\":{\"/\":\"bafy\"}}"
T_DagPutNoSlash == "{\"Cid\":{}}"
T_DagImport == "{\"Root\":{\"Cid\":{\"/\":\"bafy\"}}}"
T_DagImportNoCid == "{\"Root\":{}}"
T_PinsA == "{\"Pins\":[\"QmA\"]}"
T_PinsB == "{\"Pins\":[\"QmB\"]}"
T_PinsBA == "{\"Pins\":[\"QmB\",\"QmA\"]}"
T_PinsNone == "{\"Pins\":[]}"
T_PinsNull == "{\"Pins\":null}"
\* Not JSON
T_Malformed == "{\"Na"

Entry(id, addr) == JObj([Addrs |-> JArr(<<JStr(addr)>>), ID |-> JStr(id)])
KeyEntry == JObj([Id |-> JStr("QmKey"), Name |-> JStr("k1")])
CidLink == JObj(("/" :> JStr("bafy")))

\* What Json::parse yields for each well-formed document text of the model.
Documents ==
  (T_RespNull :> JObj([Responses |-> JNull])) @@
  (T_RespX :> JObj([Responses |-> JArr(<<Entry("X", "/ip4/1")>>)])) @@
  (T_RespY :> JObj([Responses |-> JArr(<<Entry("Y", "/ip4/2")>>)])) @@
  (T_RespYX :> JObj([Responses |-> JArr(<<Entry("Y", "/ip4/2"), Entry("X", "/ip4/3")>>)])) @@
  (T_RespStr :> JObj([Responses |-> JStr("none")])) @@
  (T_NoResp :> JObj([Type |-> JNum(6)])) @@
  (T_FooBytes :> JObj([Name |-> JStr("foo.txt"), Bytes |-> JNum(4)])) @@
  (T_FooHash :> JObj([Name |-> JStr("foo.txt"), Hash |-> JStr("H_FOO")])) @@
  (T_BarBytes :> JObj([Name |-> JStr("bar.txt"), Bytes |-> JNum(2)])) @@
  (T_BarHash :> JObj([Name |-> JStr("bar.txt"), Hash |-> JStr("H_BAR")])) @@
  (T_NoName :> JObj([Bytes |-> JNum(7)])) @@
  (T_Empty :> JObj(<<>>)) @@
  (T_Id :> JObj([ID |-> JStr("QmPeer")])) @@
  (T_Config :> JObj([Key |-> JStr("Datastore"), Value |-> JObj([GCPeriod |-> JStr("1h")])])) @@
  (T_KeyGen :> KeyEntry) @@
  (T_KeyList :> JObj([Keys |-> JArr(<<KeyEntry>>)])) @@
  (T_Publish :> JObj([Name |-> JStr("QmKey"), Value |-> JStr("/ipfs/QmA")])) @@
  (T_Resolve :> JObj([Path |-> JStr("/ipfs/QmA")])) @@
  (T_DagPut :> JObj([Cid |-> CidLink])) @@
  (T_DagPutNoSlash :> JObj([Cid |-> JObj(<<>>)])) @@
  (T_DagImport :> JObj([Root |-> JObj([Cid |-> CidLink])])) @@
  (T_DagImportNoCid :> JObj([Root |-> JObj(<<>>)])) @@
  (T_PinsA :> JObj([Pins |-> JArr(<<JStr("QmA")>>)])) @@
  (T_PinsB :> JObj([Pins |-> JArr(<<JStr("QmB")>>)])) @@
  (T_PinsBA :> JObj([Pins |-> JArr(<<JStr("QmB"), JStr("QmA")>>)])) @@
  (T_PinsNone :> JObj([Pins |-> JArr(<<>>)])) @@
  (T_PinsNull :> JObj([Pins |-> JNull]))

(***************************************************************************)
(* Outcomes: Ok, or the exception an operation ends with.                  *)
(*   name: the property or peer or object the message names                *)
(*   line: the line number of the message                                  *)
(*   text: the raw text the message carries; json: the dumped value        *)
(***************************************************************************)
Failure(kind, name, line, text, json) ==
  [kind |-> kind, name |-> name, line |-> line, text |-> text, json |-> json]
Ok == Failure("ok", "", 0, <<>>, JNull)
TransportFailure == Failure("TransportFailure", "", 0, <<>>, JNull)
TypeError == Failure("TypeError", "", 0, <<>>, JNull)


(***************************************************************************)
(* Library primitives as the code uses them                                *)
(***************************************************************************)
\* json.find(key) != json.end(): only an object has keys.
Find(json, key) == json[1] = "obj" /\ key \in DOMAIN json[2]

\* Json::push_back(value): null becomes an array, an array grows, anything
\* else throws type_error.
PushBack(json, value) ==
  IF json[1] = "null" THEN [val |-> JArr(<<value>>), res |-> Ok]
  ELSE IF json[1] = "arr" THEN [val |-> JArr(Append(json[2], value)), res |-> Ok]
  ELSE [val |-> json, res |-> TypeError]

\* Json::operator[](key) on a non-const value: null becomes an object, an
\* absent key is inserted as null, a non-object throws type_error.
Subscript(json, key) ==
  IF json[1] = "null" THEN [val |-> JNull, res |-> Ok]
  ELSE IF json[1] # "obj" THEN [val |-> JNull, res |-> TypeError]
  ELSE IF key \in DOMAIN json[2] THEN [val |-> json[2][key], res |-> Ok]
  ELSE [val |-> JNull, res |-> Ok]

\* Json::at(key): type_error on a non-object, out_of_range naming the key
\* when it is absent.
At(json, key) ==
  IF json[1] # "obj" THEN [val |-> JNull, res |-> TypeError]
  ELSE IF key \in DOMAIN json[2] THEN [val |-> json[2][key], res |-> Ok]
  ELSE [val |-> JNull, res |-> Failure("KeyNotFound", key, 0, <<>>, JNull)]

\* The conversion of a Json to std::string: type_error unless it is a string.
ToStdString(json) ==
  IF json[1] = "str" THEN [val |-> json, res |-> Ok]
  ELSE [val |-> JNull, res |-> TypeError]

\* The elements a range-for over a Json visits.
Elements(json) ==
  IF json[1] = "arr" THEN json[2]
  ELSE IF json[1] = "null" THEN <<>>
  ELSE <<json>>

\* std::getline(body, line): the text up to the next newline (consumed) or to
\* the end; fails when nothing is left.
FirstNewline(stream) ==
  IF \E k \in 1..Len(stream) : stream[k] = NL
  THEN CHOOSE k \in 1..Len(stream) : stream[k] = NL /\ \A j \in 1..(k - 1) : stream[j] # NL
  ELSE 0

\* A getline that loses a last line that has no newline after it.
GetLineNeedsNewline(stream) ==
  LET k == FirstNewline(stream) IN
  IF k = 0 THEN [ok |-> FALSE, line |-> <<>>, rest |-> <<>>]
  ELSE [ok |-> TRUE, line |-> SubSeq(stream, 1, k - 1),
        rest |-> SubSeq(stream, k + 1, Len(stream))]

GetLine(stream) ==
  IF stream = <<>> THEN [ok |-> FALSE, line |-> <<>>, rest |-> <<>>]
  ELSE LET k == FirstNewline(stream) IN
       IF k = 0 THEN [ok |-> TRUE, line |-> stream, rest |-> <<>>]
       ELSE [ok |-> TRUE, line |-> SubSeq(stream, 1, k - 1),
             rest |-> SubSeq(stream, k + 1, Len(stream))]

\* Json::parse(input): one document, surrounding whitespace (newlines) allowed.
IsToken(c) == c # NL
JsonParses(input) ==
  LET docs == SelectSeq(input, IsToken)
  IN Len(docs) = 1 /\ docs[1] \in DOMAIN Documents
JsonParse(input) == Documents[SelectSeq(input, IsToken)[1]]

(***************************************************************************)
(* Client's private helpers                                                *)
(***************************************************************************)
\* Client::ParseJson: *result is assigned only when the parse succeeds.
ParseJson(input, result) ==
  IF JsonParses(input) THEN [val |-> JsonParse(input), res |-> Ok]
  ELSE [val |-> result, res |-> Failure("MalformedResponse", "", 0, input, JNull)]

\* Client::GetProperty<PropertyType>: asString is PropertyType = std::string.
GetProperty(input, property_name, line_number, property_value, asString) ==
  IF ~Find(input, property_name)
  THEN [val |-> property_value,
        res |-> Failure("MissingField", property_name, line_number, <<>>, input)]
  ELSE IF asString /\ input[2][property_name][1] # "str"
       THEN [val |-> property_value, res |-> TypeError]
       ELSE [val |-> input[2][property_name], res |-> Ok]

\* A FetchAndParseJson that swallows the throw of Fetch and parses whatever
\* reached the sink.
FetchAndParseJsonSwallows(reply, response) == ParseJson(reply.body, response)

\* A reply of Transport::Fetch: the body written to the sink, or a throw.
\* Client::FetchAndParseJson: Fetch, then ParseJson of the whole body.
FetchAndParseJson(reply, response) ==
  IF ~reply.ok THEN [val |-> response, res |-> TransportFailure]
  ELSE ParseJson(reply.body, response)

(***************************************************************************)
(* NDJSON operations.  Each returns [out, res]: the caller's output value  *)
(* when the call ends and how it ended.                                    *)
(***************************************************************************)
\* r["ID"] == peer_id, for r in json_chunk["Responses"], then r["Addrs"].
RECURSIVE ScanResponses(_, _)
ScanResponses(responses, peer_id) ==
  IF responses = <<>> THEN [found |-> FALSE, val |-> JNull, res |-> Ok]
  ELSE LET r == Head(responses)
           id == Subscript(r, "ID")
       IN IF id.res # Ok THEN [found |-> FALSE, val |-> JNull, res |-> id.res]
          ELSE IF id.val = JStr(peer_id)
               THEN [found |-> TRUE, val |-> Subscript(r, "Addrs").val, res |-> Ok]
               ELSE ScanResponses(Tail(responses), peer_id)

RECURSIVE DhtFindPeerLoop(_, _, _, _)
DhtFindPeerLoop(stream, body, peer_id, addresses) ==
  LET g == GetLine(stream) IN
  IF ~g.ok
  THEN [out |-> addresses, res |-> Failure("NotFound", peer_id, 0, body, JNull)]
  ELSE LET p == ParseJson(g.line, JNull) IN
       IF p.res # Ok THEN [out |-> addresses, res |-> p.res]
       ELSE LET rs == Subscript(p.val, "Responses") IN
            IF rs.res # Ok THEN [out |-> addresses, res |-> rs.res]
            ELSE IF rs.val[1] # "arr"
                 THEN DhtFindPeerLoop(g.rest, body, peer_id, addresses)
                 ELSE LET sc == ScanResponses(rs.val[2], peer_id) IN
                      IF sc.res # Ok THEN [out |-> addresses, res |-> sc.res]
                      ELSE IF sc.found THEN [out |-> sc.val, res |-> Ok]
                      ELSE DhtFindPeerLoop(g.rest, body, peer_id, addresses)

\* Client::DhtFindPeer
DhtFindPeerRun(peer_id, addresses, reply) ==
  IF ~reply.ok THEN [out |-> addresses, res |-> TransportFailure]
  ELSE DhtFindPeerLoop(reply.body, reply.body, peer_id, addresses)

RECURSIVE DhtFindProvsLoop(_, _)
DhtFindProvsLoop(stream, providers) ==
  LET g == GetLine(stream) IN
  IF ~g.ok THEN [out |-> providers, res |-> Ok]
  ELSE LET p == ParseJson(g.line, JNull) IN
       IF p.res # Ok THEN [out |-> providers, res |-> p.res]
       ELSE LET pb == PushBack(providers, p.val) IN
            IF pb.res # Ok THEN [out |-> providers, res |-> pb.res]
            ELSE DhtFindProvsLoop(g.rest, pb.val)

\* Client::DhtFindProvs
DhtFindProvsRun(hash, providers, reply) ==
  IF ~reply.ok THEN [out |-> providers, res |-> TransportFailure]
  ELSE DhtFindProvsLoop(reply.body, providers)

\* json[key] = value on a value that is null or an object.
SetMember(json, key, value) ==
  IF json[1] = "obj" THEN JObj((key :> value) @@ json[2])
  ELSE JObj((key :> value))

\* The keys the model's objects are iterated over, in the order of
\* std::map<std::string, ...>, which is what a Json object is.
ObjectKeyOrder == <<"bar.txt", "foo.txt">>

\* The body of the for loop of FilesAdd: temp after one reply line.
FilesAddMerge(temp, json_chunk, path) ==
  LET old == Subscript(temp, path).val
      r1 == SetMember(old, "path", JStr(path))
      r2 == IF Find(json_chunk, "Hash") THEN SetMember(r1, "hash", json_chunk[2]["Hash"]) ELSE r1
      r3 == IF Find(json_chunk, "Bytes") THEN SetMember(r2, "size", json_chunk[2]["Bytes"]) ELSE r2
  IN SetMember(temp, path, r3)

RECURSIVE FilesAddLoop(_, _, _)
FilesAddLoop(stream, i, temp) ==
  LET g == GetLine(stream) IN
  IF ~g.ok THEN [val |-> temp, res |-> Ok]
  ELSE LET p == ParseJson(g.line, JNull) IN
       IF p.res # Ok THEN [val |-> temp, res |-> p.res]
       ELSE LET n == GetProperty(p.val, "Name", i, JStr(""), TRUE) IN
            IF n.res # Ok THEN [val |-> temp, res |-> n.res]
            ELSE FilesAddLoop(g.rest, i + 1, FilesAddMerge(temp, p.val, n.val[2]))

\* for (it = temp.begin(); it != temp.end(); ++it) result->push_back(it.value())
RECURSIVE FilesAddEmit(_, _, _)
FilesAddEmit(keys, temp, result) ==
  IF keys = <<>> THEN [out |-> result, res |-> Ok]
  ELSE LET pb == PushBack(result, temp[2][Head(keys)]) IN
       IF pb.res # Ok THEN [out |-> result, res |-> pb.res]
       ELSE FilesAddEmit(Tail(keys), temp, pb.val)

InObject(json) == LET Present(k) == Find(json, k) IN SelectSeq(ObjectKeyOrder, Present)

\* Client::FilesAdd
FilesAddRun(result, reply) ==
  IF ~reply.ok THEN [out |-> result, res |-> TransportFailure]
  ELSE LET l == FilesAddLoop(reply.body, 1, JNull) IN
       IF l.res # Ok THEN [out |-> result, res |-> l.res]
       ELSE FilesAddEmit(InObject(l.val), l.val, result)

(***************************************************************************)
(* Single-document operations                                              *)
(***************************************************************************)
\* Client::ConfigGet: the reply is parsed into *config, then (for a
\* non-empty key) GetProperty(*config, "Value", 0, config).
ConfigGetRun(key, config, reply) ==
  LET f == FetchAndParseJson(reply, config) IN
  IF f.res # Ok THEN [out |-> f.val, res |-> f.res]
  ELSE IF key = "" THEN [out |-> f.val, res |-> Ok]
  ELSE LET g == GetProperty(f.val, "Value", 0, f.val, FALSE)
       IN [out |-> g.val, res |-> g.res]

\* Client::KeyGen: *generated_key = response["Id"]
KeyGenRun(generated_key, reply) ==
  LET f == FetchAndParseJson(reply, JNull) IN
  IF f.res # Ok THEN [out |-> generated_key, res |-> f.res]
  ELSE LET id == Subscript(f.val, "Id") IN
       IF id.res # Ok THEN [out |-> generated_key, res |-> id.res]
       ELSE LET str == ToStdString(id.val) IN
            IF str.res # Ok THEN [out |-> generated_key, res |-> str.res]
            ELSE [out |-> str.val, res |-> Ok]

\* Client::KeyList: *key_list = response["Keys"]
KeyListRun(key_list, reply) ==
  LET f == FetchAndParseJson(reply, JNull) IN
  IF f.res # Ok THEN [out |-> key_list, res |-> f.res]
  ELSE LET keys == Subscript(f.val, "Keys") IN
       IF keys.res # Ok THEN [out |-> key_list, res |-> keys.res]
       ELSE [out |-> keys.val, res |-> Ok]

\* Client::NamePublish and Client::NameResolve: GetProperty of one string.
ProjectString(property_name, value, reply) ==
  LET f == FetchAndParseJson(reply, JNull) IN
  IF f.res # Ok THEN [out |-> value, res |-> f.res]
  ELSE LET g == GetProperty(f.val, property_name, 0, value, TRUE)
       IN [out |-> g.val, res |-> g.res]

NamePublishRun(name_id, reply) == ProjectString("Name", name_id, reply)

NameResolveRun(path_string, reply) == ProjectString("Path", path_string, reply)

\* json.at(k1).at(k2)....get_to(*cid)
RECURSIVE AtPath(_, _)
AtPath(json, keys) ==
  IF keys = <<>> THEN [val |-> json, res |-> Ok]
  ELSE LET a == At(json, Head(keys)) IN
       IF a.res # Ok THEN a ELSE AtPath(a.val, Tail(keys))

DagExtract(keys, cid, reply) ==
  LET f == FetchAndParseJson(reply, JNull) IN
  IF f.res # Ok THEN [out |-> cid, res |-> f.res]
  ELSE LET a == AtPath(f.val, keys) IN
       IF a.res # Ok THEN [out |-> cid, res |-> a.res]
       ELSE LET str == ToStdString(a.val) IN
            IF str.res # Ok THEN [out |-> cid, res |-> str.res]
            ELSE [out |-> str.val, res |-> Ok]

\* Client::DagImport
DagImportRun(cid, reply) == DagExtract(<<"Root", "Cid", "/">>, cid, reply)

\* Client::DagPut
DagPutRun(cid, reply) == DagExtract(<<"Cid", "/">>, cid, reply)

\* for (const std::string pin : pins_array) if (pin == object_id) return;
RECURSIVE PinsLoop(_, _)
PinsLoop(pins, object_id) ==
  IF pins = <<>> THEN [found |-> FALSE, res |-> Ok]
  ELSE LET pin == ToStdString(Head(pins)) IN
       IF pin.res # Ok THEN [found |-> FALSE, res |-> pin.res]
       ELSE IF pin.val = JStr(object_id) THEN [found |-> TRUE, res |-> Ok]
       ELSE PinsLoop(Tail(pins), object_id)

\* A PinAdd that looks at the first pin only.
PinAddFirstPinOnly(object_id, unused, reply) ==
  LET f == FetchAndParseJson(reply, JNull) IN
  IF f.res # Ok THEN [out |-> unused, res |-> f.res]
  ELSE LET g == GetProperty(f.val, "Pins", 0, JNull, FALSE) IN
       IF g.res # Ok THEN [out |-> unused, res |-> g.res]
       ELSE IF Elements(g.val) # <<>> /\ Head(Elements(g.val)) = JStr(object_id)
            THEN [out |-> unused, res |-> Ok]
            ELSE [out |-> unused,
                  res |-> Failure("VerificationFailed", object_id, 0, <<>>, f.val)]

\* Client::PinAdd (it has no output parameter: out is returned unchanged)
PinAddRun(object_id, unused, reply) ==
  LET f == FetchAndParseJson(reply, JNull) IN
  IF f.res # Ok THEN [out |-> unused, res |-> f.res]
  ELSE LET g == GetProperty(f.val, "Pins", 0, JNull, FALSE) IN
       IF g.res # Ok THEN [out |-> unused, res |-> g.res]
       ELSE LET l == PinsLoop(Elements(g.val), object_id) IN
            IF l.res # Ok THEN [out |-> unused, res |-> l.res]
            ELSE IF l.found THEN [out |-> unused, res |-> Ok]
            ELSE [out |-> unused,
                  res |-> Failure("VerificationFailed", object_id, 0, <<>>, f.val)]

(***************************************************************************)
(* Sessions and their Transports                                           *)
(***************************************************************************)
Sessions == 1..MaxSessions
\* A Transport lives at an address; 0 is nullptr.
Addresses == 1..MaxSessions
nullptr == 0

NoClient == [live |-> FALSE, http_ |-> nullptr, url_prefix_ |-> <<>>, timeout_value_ |-> <<>>]
NoTransport == [alive |-> FALSE, stopped |-> FALSE, op |-> "idle"]
\* No exchange with the daemon was completed.
NoNet == [ok |-> FALSE, body |-> <<>>]
NoData ==
  [pc |-> "idle", startAborted |-> FALSE, aborted |-> FALSE,
   net |-> NoNet, response |-> JNull, outcome |-> Ok]

NoSessions ==
  /\ sess = [s \in Sessions |-> NoClient]
  /\ heap = [a \in Addresses |-> NoTransport]
  /\ data = [s \in Sessions |-> NoData]
  /\ ctl = [s \in Sessions |-> "none"]

(***************************************************************************)
(* Inputs of the operations                                                *)
(***************************************************************************)
\* The sequences over S of length at most n.
SeqsUpTo(S, n) == UNION {[1..k -> S] : k \in 0..n}

\* The lines joined by newlines, the last one with or without its newline.
RECURSIVE Join(_, _)
Join(lines, trailing) ==
  IF lines = <<>> THEN <<>>
  ELSE IF Len(lines) = 1 THEN Head(lines) \o (IF trailing THEN <<NL>> ELSE <<>>)
  ELSE Head(lines) \o <<NL>> \o Join(Tail(lines), trailing)

\* A line holds one text of the alphabet, or nothing (a blank line).
Bodies(alphabet, n) ==
  {Join(ls, tr) : ls \in SeqsUpTo({<<a>> : a \in alphabet} \cup {<<>>}, n), tr \in BOOLEAN}

\* What Transport::Fetch does: it throws, or it has written a body.
Replies(alphabet, n) ==
  {[ok |-> FALSE, body |-> <<>>]} \cup {[ok |-> TRUE, body |-> b] : b \in Bodies(alphabet, n)}

FindPeerLines == {T_RespNull, T_RespX, T_RespYX, T_RespStr, T_NoResp, T_Malformed}
FindProvsLines == {T_RespNull, T_RespX, T_Malformed}
FilesAddLines == {T_FooBytes, T_FooHash, T_BarBytes, T_BarHash, T_NoName, T_Malformed}
ConfigReplies == {T_Config, T_Empty, T_Malformed}
KeyGenReplies == {T_KeyGen, T_Empty, T_Malformed}
KeyListReplies == {T_KeyList, T_Empty, T_Malformed}
PublishReplies == {T_Publish, T_Empty, T_Malformed}
ResolveReplies == {T_Resolve, T_Empty, T_Malformed}
DagPutReplies == {T_DagPut, T_DagPutNoSlash, T_Empty, T_Malformed}
DagImportReplies == {T_DagImport, T_DagImportNoCid, T_Empty, T_Malformed}
PinAddReplies == {T_PinsA, T_PinsB, T_PinsBA, T_PinsNone, T_PinsNull, T_Empty, T_Malformed}

PeerIds == {"X", "Z"}
ObjectIds == {"QmA", "QmC"}
ConfigKeys == {"", "Datastore"}
\* What the caller's output parameter holds before the call.
CallerJson == {JNull, JArr(<<JStr("old")>>), JStr("old")}
CallerString == {JStr(""), JStr("old")}

NoCall == [op |-> "", arg |-> "", out0 |-> JNull, reply |-> [ok |-> FALSE, body |-> <<>>]]

(***************************************************************************)
(* The calling thread: one synchronous call at a time, each an action.     *)
(***************************************************************************)
Finish(op, arg, out0, reply, r) ==
  /\ pc' = "done"
  /\ call' = [op |-> op, arg |-> arg, out0 |-> out0, reply |-> reply]
  /\ output' = r.out
  /\ outcome' = r.res
  /\ UNCHANGED <<urlvars, sessvars>>

DhtFindPeer ==
  /\ pc = "idle"
  /\ \E peer_id \in PeerIds, addresses \in CallerJson, reply \in Replies(FindPeerLines, MaxLines) :
       Finish("DhtFindPeer", peer_id, addresses, reply, DhtFindPeerRun(peer_id, addresses, reply))

DhtFindProvs ==
  /\ pc = "idle"
  /\ \E providers \in CallerJson, reply \in Replies(FindProvsLines, MaxLines) :
       Finish("DhtFindProvs", "QmA", providers, reply, DhtFindProvsRun("QmA", providers, reply))

FilesAdd ==
  /\ pc = "idle"
  /\ \E result \in CallerJson, reply \in Replies(FilesAddLines, MaxLines) :
       Finish("FilesAdd", "", result, reply, FilesAddRun(result, reply))

ConfigGet ==
  /\ pc = "idle"
  /\ \E key \in ConfigKeys, config \in CallerJson, reply \in Replies(ConfigReplies, 1) :
       Finish("ConfigGet", key, config, reply, ConfigGetRun(key, config, reply))

KeyGen ==
  /\ pc = "idle"
  /\ \E generated_key \in CallerString, reply \in Replies(KeyGenReplies, 1) :
       Finish("KeyGen", "k1", generated_key, reply, KeyGenRun(generated_key, reply))

KeyList ==
  /\ pc = "idle"
  /\ \E key_list \in CallerJson, reply \in Replies(KeyListReplies, 1) :
       Finish("KeyList", "", key_list, reply, KeyListRun(key_list, reply))

NamePublish ==
  /\ pc = "idle"
  /\ \E name_id \in CallerString, reply \in Replies(PublishReplies, 1) :
       Finish("NamePublish", "QmA", name_id, reply, NamePublishRun(name_id, reply))

NameResolve ==
  /\ pc = "idle"
  /\ \E path_string \in CallerString, reply \in Replies(ResolveReplies, 1) :
       Finish("NameResolve", "QmKey", path_string, reply, NameResolveRun(path_string, reply))

DagImport ==
  /\ pc = "idle"
  /\ \E cid \in CallerString, reply \in Replies(DagImportReplies, 1) :
       Finish("DagImport", "", cid, reply, DagImportRun(cid, reply))

DagPut ==
  /\ pc = "idle"
  /\ \E cid \in CallerString, reply \in Replies(DagPutReplies, 1) :
       Finish("DagPut", "", cid, reply, DagPutRun(cid, reply))

PinAdd ==
  /\ pc = "idle"
  /\ \E object_id \in ObjectIds, reply \in Replies(PinAddReplies, 1) :
       Finish("PinAdd", object_id, JNull, reply, PinAddRun(object_id, JNull, reply))

\* The caller has the result (or has caught the exception) and goes on.
Return ==
  /\ pc = "done"
  /\ pc' = "idle"
  /\ call' = NoCall
  /\ output' = JNull
  /\ outcome' = Ok
  /\ UNCHANGED <<urlvars, sessvars>>

UrlIdle ==
  /\ request = [url_prefix_ |-> <<>>, timeout_value_ |-> <<>>, path |-> <<>>, parameters |-> <<>>]
  /\ url = <<>>

OpsInit ==
  /\ pc = "idle"
  /\ call = NoCall
  /\ output = JNull
  /\ outcome = Ok

\* Nothing is in progress and no Client exists.
Init == OpsInit /\ UrlIdle /\ NoSessions

OpsNext ==
  \/ DhtFindPeer
  \/ DhtFindProvs
  \/ FilesAdd
  \/ ConfigGet
  \/ KeyGen
  \/ KeyList
  \/ NamePublish
  \/ NameResolve
  \/ DagImport
  \/ DagPut
  \/ PinAdd
  \/ Return

OpsSpec == Init /\ [][OpsNext]_vars

(***************************************************************************)
(* What a reply is, stated apart from the code: its lines, and what they   *)
(* hold.                                                                   *)
(***************************************************************************)
NewlinesOf(body) == {k \in 1..Len(body) : body[k] = NL}

NthNewline(body, n) ==
  CHOOSE p \in NewlinesOf(body) : Cardinality({q \in NewlinesOf(body) : q <= p}) = n

\* The lines of a body: the text before each newline, and the text after
\* the last newline when there is any.
ReplyLines(body) ==
  LET nls == Cardinality(NewlinesOf(body))
      last == IF nls = 0 THEN 0 ELSE NthNewline(body, nls)
      n == IF last < Len(body) THEN nls + 1 ELSE nls
      From(i) == IF i = 1 THEN 1 ELSE NthNewline(body, i - 1) + 1
      To(i) == IF i <= nls THEN NthNewline(body, i) - 1 ELSE Len(body)
  IN [i \in 1..n |-> SubSeq(body, From(i), To(i))]

\* A Json read as a sequence: an array's elements, nothing for null.
AsSequence(json) == IF json[1] = "arr" THEN json[2] ELSE <<>>

\* The k-th smallest element of a set of numbers, as a sequence in order.
Ascending(S) ==
  [k \in 1..Cardinality(S) |-> CHOOSE i \in S : Cardinality({j \in S : j <= i}) = k]

Done(op) == pc = "done" /\ call.op = op

(***************************************************************************)
(* C5: FilesAdd                                                            *)
(***************************************************************************)
NameOf(doc) == doc[2]["Name"][2]

Latest(S) == CHOOSE i \in S : \A j \in S : j <= i

\* The one record of a path: its name, and the Hash and the Bytes of the
\* lines that carry its name, whichever lines they are.
FileRecord(docs, name) ==
  LET mine == {i \in DOMAIN docs : NameOf(docs[i]) = name}
      hashes == {i \in mine : Find(docs[i], "Hash")}
      sizes == {i \in mine : Find(docs[i], "Bytes")}
      keys == {"path"} \cup (IF hashes # {} THEN {"hash"} ELSE {})
                       \cup (IF sizes # {} THEN {"size"} ELSE {})
  IN JObj([k \in keys |-> IF k = "path" THEN JStr(name)
                          ELSE IF k = "hash" THEN docs[Latest(hashes)][2]["Hash"]
                          ELSE docs[Latest(sizes)][2]["Bytes"]])

\* The lines on which a path appears for the first time, in order.
FirstSeen(docs) ==
  Ascending({i \in DOMAIN docs : \A j \in 1..(i - 1) : NameOf(docs[j]) # NameOf(docs[i])})

RecordsInFirstSeenOrder(docs) ==
  [k \in DOMAIN FirstSeen(docs) |-> FileRecord(docs, NameOf(docs[FirstSeen(docs)[k]]))]

ParsedLines(body) ==
  LET lines == ReplyLines(body) IN [i \in DOMAIN lines |-> JsonParse(lines[i])]

\* C5: when FilesAdd returns normally into an empty output, the output is
\* one {path, hash, size} record per distinct Name of the reply, merged by
\* Name, in the order in which each path was first seen in the reply.
C5_FilesAddFirstSeenOrder ==
  (Done("FilesAdd") /\ outcome = Ok /\ call.out0 = JNull)
    => AsSequence(output) = RecordsInFirstSeenOrder(ParsedLines(call.reply.body))

(***************************************************************************)
(* C6: nothing is written to the output by a call that fails               *)
(***************************************************************************)
\* C6: whenever DhtFindProvs, DhtFindPeer, FilesAdd or ConfigGet fails, the
\* caller's output value holds what it held before the call.
C6_NoPartialOutputOnFailure ==
  (pc = "done" /\ call.op \in {"DhtFindProvs", "DhtFindPeer", "FilesAdd", "ConfigGet"}
     /\ outcome # Ok)
    => output = call.out0

(***************************************************************************)
(* C7: a projected field that is absent                                    *)
(***************************************************************************)
\* The field (or nested fields) each operation takes out of its reply.
ProjectedPath(op) ==
  CASE op = "ConfigGet" -> <<"Value">>
    [] op = "NamePublish" -> <<"Name">>
    [] op = "NameResolve" -> <<"Path">>
    [] op = "KeyGen" -> <<"Id">>
    [] op = "KeyList" -> <<"Keys">>
    [] op = "PinAdd" -> <<"Pins">>
    [] op = "FilesAdd" -> <<"Name">>
    [] op = "DagPut" -> <<"Cid", "/">>
    [] op = "DagImport" -> <<"Root", "Cid", "/">>

Projecting ==
  {"ConfigGet", "NamePublish", "NameResolve", "KeyGen", "KeyList", "PinAdd",
   "FilesAdd", "DagPut", "DagImport"}

\* The first field of the path that the document does not have, "" if none.
RECURSIVE FirstAbsent(_, _)
FirstAbsent(doc, path) ==
  IF path = <<>> THEN ""
  ELSE IF ~Find(doc, Head(path)) THEN Head(path)
  ELSE FirstAbsent(doc[2][Head(path)], Tail(path))

\* The document the projection is applied to: the whole reply, or for
\* FilesAdd its first line.
ProjectedText(op, body) ==
  IF op = "FilesAdd"
  THEN (IF ReplyLines(body) = <<>> THEN <<>> ELSE ReplyLines(body)[1])
  ELSE body

\* C7: when the projected field is absent from a well-formed reply, the
\* operation fails with an error that names the field; it does not return
\* normally.
C7_AbsentFieldIsMissingField ==
  (pc = "done" /\ call.op \in Projecting /\ call.reply.ok
     /\ ~(call.op = "ConfigGet" /\ call.arg = "")
     /\ JsonParses(ProjectedText(call.op, call.reply.body))
     /\ FirstAbsent(JsonParse(ProjectedText(call.op, call.reply.body)),
                    ProjectedPath(call.op)) # "")
    => /\ outcome.kind \in {"MissingField", "KeyNotFound"}
       /\ outcome.name = FirstAbsent(JsonParse(ProjectedText(call.op, call.reply.body)),
                                     ProjectedPath(call.op))

(***************************************************************************)
(* C11: one Fetch, and the first error is the call's result                *)
(***************************************************************************)
\* The operations that decode the whole reply as one document.
SingleDocument ==
  {"ConfigGet", "KeyGen", "KeyList", "NamePublish", "NameResolve", "DagPut",
   "DagImport", "PinAdd"}

\* Some line of the reply is not a JSON document.
SomeLineMalformed(body) ==
  \E i \in DOMAIN ReplyLines(body) : ~JsonParses(ReplyLines(body)[i])

\* The Fetch failed: the call fails with the transport's error and nothing
\* was decoded into the output.
FetchFailureIsTheResult ==
  (pc = "done" /\ ~call.reply.ok) => (outcome = TransportFailure /\ output = call.out0)

\* A decode fails: the call fails, with the decoder's error when the reply
\* is a single document.
DecodeFailureIsTheResult ==
  /\ (pc = "done" /\ call.op \in SingleDocument /\ call.reply.ok
        /\ ~JsonParses(call.reply.body))
       => (outcome.kind = "MalformedResponse" /\ outcome.text = call.reply.body)
  /\ (pc = "done" /\ call.op \in {"DhtFindProvs", "FilesAdd"} /\ call.reply.ok
        /\ SomeLineMalformed(call.reply.body))
       => outcome # Ok

\* The field an operation is to hand back is absent: the call does not
\* return normally.
AbsentFieldIsNotAResult ==
  (pc = "done" /\ call.op \in Projecting /\ call.reply.ok
     /\ ~(call.op = "ConfigGet" /\ call.arg = "")
     /\ JsonParses(ProjectedText(call.op, call.reply.body))
     /\ FirstAbsent(JsonParse(ProjectedText(call.op, call.reply.body)),
                    ProjectedPath(call.op)) # "")
    => outcome # Ok

\* C11: an operation consumes the one reply of its one Fetch; when the
\* Fetch fails it fails with the transport's error and decodes nothing;
\* when a decode or a field extraction fails it fails with that error, and
\* never returns normally with a default or empty value in its place.
C11_FirstErrorIsTheResult ==
  /\ FetchFailureIsTheResult
  /\ DecodeFailureIsTheResult
  /\ AbsentFieldIsNotAResult

(***************************************************************************)
(* C8: DhtFindPeer                                                         *)
(***************************************************************************)
ResponsesOf(doc) ==
  IF Find(doc, "Responses") /\ doc[2]["Responses"][1] = "arr"
  THEN doc[2]["Responses"][2]
  ELSE <<>>

IsEntryOf(entry, peer_id) == Find(entry, "ID") /\ entry[2]["ID"] = JStr(peer_id)

Mentions(doc, peer_id) ==
  \E k \in DOMAIN ResponsesOf(doc) : IsEntryOf(ResponsesOf(doc)[k], peer_id)

FirstEntryOf(doc, peer_id) ==
  LET rs == ResponsesOf(doc)
      k == CHOOSE i \in DOMAIN rs :
             /\ IsEntryOf(rs[i], peer_id)
             /\ \A j \in 1..(i - 1) : ~IsEntryOf(rs[j], peer_id)
  IN rs[k]

\* C8: DhtFindPeer returns the Addrs of the first Responses entry, in line
\* order, whose ID is the requested peer, passing over the lines whose
\* Responses is null or no array; when every line has been read and none
\* mentions the peer it fails with NotFound naming the peer and carrying
\* the whole reply body.
C8_FindPeerFirstMatchOrNotFound ==
  (Done("DhtFindPeer") /\ call.reply.ok) =>
    LET lines == ReplyLines(call.reply.body)
        hits == {i \in DOMAIN lines :
                   /\ \A j \in 1..i : JsonParses(lines[j])
                   /\ Mentions(JsonParse(lines[i]), call.arg)}
        first == CHOOSE i \in hits : \A j \in hits : i <= j
    IN IF hits # {}
       THEN /\ outcome = Ok
            /\ output = FirstEntryOf(JsonParse(lines[first]), call.arg)[2]["Addrs"]
       ELSE (\A i \in DOMAIN lines : JsonParses(lines[i]))
              => /\ outcome = Failure("NotFound", call.arg, 0, call.reply.body, JNull)
                 /\ output = call.out0

C8_Witness ==
  /\ Done("DhtFindPeer")
  /\ call.arg = "X"
  /\ call.reply.body = <<T_RespNull, NL, T_RespStr, NL, T_RespYX>>
  /\ outcome = Ok
  /\ output = JArr(<<JStr("/ip4/3")>>)

(***************************************************************************)
(* C9: DhtFindProvs                                                        *)
(***************************************************************************)
\* C9: when DhtFindProvs returns normally its output holds exactly the
\* parsed reply lines, in order, and nothing else.
C9_FindProvsExactlyTheLines ==
  (Done("DhtFindProvs") /\ outcome = Ok)
    => AsSequence(output) = ParsedLines(call.reply.body)

(***************************************************************************)
(* C10: PinAdd                                                             *)
(***************************************************************************)
PinsOf(doc) ==
  IF Find(doc, "Pins") /\ doc[2]["Pins"][1] = "arr"
  THEN {doc[2]["Pins"][2][i] : i \in DOMAIN doc[2]["Pins"][2]}
  ELSE {}

\* C10: PinAdd returns normally exactly when the reply is a document whose
\* Pins holds the requested identifier; on a well-formed reply whose Pins
\* does not hold it, PinAdd fails with VerificationFailed carrying the
\* whole reply.
C10_PinAddVerifies ==
  Done("PinAdd") =>
    LET wellFormed == call.reply.ok /\ JsonParses(call.reply.body)
        doc == JsonParse(call.reply.body)
    IN /\ outcome = Ok <=> (wellFormed /\ Find(doc, "Pins") /\ JStr(call.arg) \in PinsOf(doc))
       /\ (wellFormed /\ Find(doc, "Pins") /\ JStr(call.arg) \notin PinsOf(doc))
            => outcome = Failure("VerificationFailed", call.arg, 0, <<>>, doc)

C10_Witness ==
  /\ Done("PinAdd")
  /\ call.arg = "QmA"
  /\ call.reply.body = <<T_PinsBA>>
  /\ outcome = Ok

(***************************************************************************)
(* The URL builder.  A std::string is a sequence of one-character strings. *)
(***************************************************************************)
S_arg == <<"a", "r", "g">>
S_key == <<"k", "e", "y">>
S_timeout == <<"t", "i", "m", "e", "o", "u", "t">>
S_lifetime == <<"l", "i", "f", "e", "t", "i", "m", "e">>
S_ttl == <<"t", "t", "l">>
S_http == <<"h", "t", "t", "p", ":", "/", "/">>
S_localhost == <<"l", "o", "c", "a", "l", "h", "o", "s", "t">>
S_api == <<"/", "a", "p", "i", "/", "v", "0">>
S_id == <<"i", "d">>
S_publish == <<"n", "a", "m", "e", "/", "p", "u", "b", "l", "i", "s", "h">>
QuerySuffix ==
  <<"?", "s", "t", "r", "e", "a", "m", "-", "c", "h", "a", "n", "n", "e", "l", "s", "=", "t", "r", "u", "e", "&", "j", "s", "o", "n", "=", "t", "r", "u", "e", "&", "e", "n", "c", "o", "d", "i", "n", "g", "=", "j", "s", "o", "n">>

\* Transport::UrlEncode: letters, digits and - . _ ~ are kept, every other
\* character becomes % and its two hexadecimal digits.
Reserved ==
  ("&" :> <<"2", "6">>) @@ ("=" :> <<"3", "D">>) @@ (" " :> <<"2", "0">>) @@
  ("/" :> <<"2", "F">>) @@ ("%" :> <<"2", "5">>) @@ ("?" :> <<"3", "F">>) @@
  (":" :> <<"3", "A">>)

RECURSIVE UrlEncode(_)
UrlEncode(raw) ==
  IF raw = <<>> THEN <<>>
  ELSE (IF Head(raw) \in DOMAIN Reserved THEN <<"%">> \o Reserved[Head(raw)] ELSE <<Head(raw)>>)
       \o UrlEncode(Tail(raw))

\* std::to_string of a non-negative number.
Digits == <<"0", "1", "2", "3", "4", "5", "6", "7", "8", "9">>
RECURSIVE to_string(_)
to_string(n) ==
  IF n < 10 THEN <<Digits[n + 1]>> ELSE to_string(n \div 10) \o <<Digits[(n % 10) + 1]>>

\* Client::Client(host, port, timeout, protocol, apiPath, verbose): url_prefix_
UrlPrefix(protocol, host, port, apiPath) ==
  protocol \o host \o <<":">> \o to_string(port) \o apiPath

\* for (auto& parameter : params) url += "&" + name + "=" + value
RECURSIVE AppendParameters(_, _)
AppendParameters(u, params) ==
  IF params = <<>> THEN u
  ELSE AppendParameters(
         u \o <<"&">> \o UrlEncode(Head(params)[1]) \o <<"=">> \o UrlEncode(Head(params)[2]),
         Tail(params))

\* A MakeUrl that puts the timeout before the caller's parameters.
MakeUrlTimeoutFirst(url_prefix_, timeout_value_, path, parameters) ==
  LET u == url_prefix_ \o <<"/">> \o path \o QuerySuffix
      params == IF timeout_value_ # <<>>
                THEN <<<<S_timeout, timeout_value_>>>> \o parameters
                ELSE parameters
  IN AppendParameters(u, params)

\* Client::MakeUrl
MakeUrl(url_prefix_, timeout_value_, path, parameters) ==
  LET u == url_prefix_ \o <<"/">> \o path \o QuerySuffix
      params == IF timeout_value_ # <<>>
                THEN Append(parameters, <<S_timeout, timeout_value_>>)
                ELSE parameters
  IN AppendParameters(u, params)

\* Client::NamePublish: the parameters it passes to MakeUrl; options is the
\* sequence options.items() visits, each a key and its string value.
NamePublishArgs(object_id, key_name, options) ==
  <<<<S_arg, object_id>>, <<S_key, key_name>>>> \o options

(***************************************************************************)
(* The URL builder's callers                                               *)
(***************************************************************************)
Ports == {80, 5001}
Timeouts == {<<>>, <<"2", "0", "s">>, <<"1", " ", "m">>}
Paths == {S_id, S_publish}
ParamKeys == {S_arg, <<"k", "=", "&">>}
ParamValues == {<<>>, <<"a">>, <<"a", "&", "b", "=", "c">>, <<" ", "/">>, <<"%", "2", "6">>}
\* The items of the options of NamePublish, in key order.
OptionItems == <<<<S_lifetime, <<"1", "h">>>>, <<S_ttl, <<"1", " ", "m">>>>>>

NoRequest == [url_prefix_ |-> <<>>, timeout_value_ |-> <<>>, path |-> <<>>, parameters |-> <<>>]

Built(url_prefix_, timeout_value_, path, parameters) ==
  /\ request' = [url_prefix_ |-> url_prefix_, timeout_value_ |-> timeout_value_,
                 path |-> path, parameters |-> parameters]
  /\ url' = MakeUrl(url_prefix_, timeout_value_, path, parameters)
  /\ UNCHANGED <<opvars, sessvars>>

\* Any caller of MakeUrl, on a session constructed with some port and timeout.
BuildUrl ==
  /\ request = NoRequest
  /\ \E port \in Ports, timeout \in Timeouts, path \in Paths,
        parameters \in SeqsUpTo(ParamKeys \X ParamValues, MaxParams) :
       Built(UrlPrefix(S_http, S_localhost, port, S_api), timeout, path, parameters)

\* NamePublish: arg, key, then the options.
NamePublishUrl ==
  /\ request = NoRequest
  /\ \E timeout \in Timeouts, object_id \in ParamValues, chosen \in SUBSET DOMAIN OptionItems :
       LET options == [k \in DOMAIN Ascending(chosen) |-> OptionItems[Ascending(chosen)[k]]]
       IN Built(UrlPrefix(S_http, S_localhost, 5001, S_api), timeout, S_publish,
                NamePublishArgs(object_id, <<"k", "1">>, options))

UrlReturn ==
  /\ request # NoRequest
  /\ request' = NoRequest
  /\ url' = <<>>
  /\ UNCHANGED <<opvars, sessvars>>

UrlNext ==
  \/ BuildUrl
  \/ NamePublishUrl
  \/ UrlReturn

UrlSpec == Init /\ [][UrlNext]_vars

(***************************************************************************)
(* C4: MakeUrl                                                             *)
(***************************************************************************)
IndexOf(str, c) ==
  IF \E k \in DOMAIN str : str[k] = c
  THEN CHOOSE k \in DOMAIN str : str[k] = c /\ \A j \in 1..(k - 1) : str[j] # c
  ELSE 0

\* The pieces of str between the separators.
RECURSIVE Split(_, _)
Split(str, sep) ==
  LET k == IndexOf(str, sep) IN
  IF k = 0 THEN <<str>>
  ELSE <<SubSeq(str, 1, k - 1)>> \o Split(SubSeq(str, k + 1, Len(str)), sep)

\* name=value, cut at the first "=".
SplitPair(piece) ==
  LET k == IndexOf(piece, "=") IN
  IF k = 0 THEN <<piece, <<>>>>
  ELSE <<SubSeq(piece, 1, k - 1), SubSeq(piece, k + 1, Len(piece))>>

\* Percent-decoding, as the server does it.
RECURSIVE PercentDecode(_)
PercentDecode(str) ==
  IF str = <<>> THEN <<>>
  ELSE IF /\ Head(str) = "%"
          /\ Len(str) >= 3
          /\ \E c \in DOMAIN Reserved : Reserved[c] = <<str[2], str[3]>>
       THEN <<CHOOSE c \in DOMAIN Reserved : Reserved[c] = <<str[2], str[3]>>>>
            \o PercentDecode(SubSeq(str, 4, Len(str)))
       ELSE <<Head(str)>> \o PercentDecode(Tail(str))

\* C4: the URL is prefix "/" path, the fixed flags, then one &name=value per
\* parameter in the order supplied, name and value URL-encoded, then (iff
\* the timeout is not empty) the timeout parameter, last; decoding the
\* query gives back the pairs in order, followed by the timeout.
C4_MakeUrlShape ==
  request # NoRequest =>
    LET head == request.url_prefix_ \o <<"/">> \o request.path \o QuerySuffix
        rest == SubSeq(url, Len(head) + 1, Len(url))
        expected == request.parameters \o
                    (IF request.timeout_value_ # <<>>
                     THEN <<<<S_timeout, request.timeout_value_>>>> ELSE <<>>)
        pieces == IF rest = <<>> THEN <<>> ELSE Split(Tail(rest), "&")
    IN /\ Len(url) >= Len(head)
       /\ SubSeq(url, 1, Len(head)) = head
       /\ rest = <<>> \/ Head(rest) = "&"
       /\ Len(pieces) = Len(expected)
       /\ \A i \in DOMAIN pieces :
            LET kv == SplitPair(pieces[i]) IN
            /\ kv = <<UrlEncode(expected[i][1]), UrlEncode(expected[i][2])>>
            /\ <<PercentDecode(kv[1]), PercentDecode(kv[2])>> = expected[i]

C4_Witness ==
  /\ request # NoRequest
  /\ request.timeout_value_ = <<"2", "0", "s">>
  /\ request.parameters = <<<<S_arg, <<"a", "&", "b", "=", "c">>>>, <<S_arg, <<" ", "/">>>>>>
  /\ Len(url) > Len(request.url_prefix_) + Len(QuerySuffix)

(***************************************************************************)
(* The Transport, from its contract: an abort flag that StopFetch sets and *)
(* ResetFetch clears; a Fetch that is refused while the flag is set, and   *)
(* that is interrupted when StopFetch comes while it is in flight.         *)
(***************************************************************************)
NewTransport == [alive |-> TRUE, stopped |-> FALSE, op |-> "idle"]

StopFetch(t) ==
  [t EXCEPT !.stopped = TRUE, !.op = IF @ = "running" THEN "interrupted" ELSE @]

ResetFetch(t) == [t EXCEPT !.stopped = FALSE]

\* Fetch is entered: refused when aborted, else the exchange is in flight.
FetchEnter(t) ==
  IF t.stopped THEN [t |-> t, refused |-> TRUE]
  ELSE [t |-> [t EXCEPT !.op = "running"], refused |-> FALSE]

\* Fetch comes back: with what the network gave, or, interrupted, with a
\* throw and only a part of the body in the sink.
FetchLeave(t, net, part) ==
  [t |-> [t EXCEPT !.op = "idle"],
   reply |-> IF t.op = "interrupted"
             THEN [ok |-> FALSE, body |-> SubSeq(net.body, 1, part)]
             ELSE net]

\* Clone(): an independent Transport.
Clone(t) == NewTransport

(***************************************************************************)
(* Client: construction, copy, move, destruction                           *)
(***************************************************************************)
Allocated(h) == {a \in Addresses : h[a].alive}

\* new: an address that is not in use.
New(h) == CHOOSE a \in Addresses \ Allocated(h) : \A b \in Addresses \ Allocated(h) : a <= b

\* unique_ptr: the Transport is deleted when its owner lets go of it.
Delete(h, a) == IF a = nullptr THEN h ELSE [h EXCEPT ![a] = NoTransport]

\* A copy that shares the other session's Transport.
CopyHttpShares(h, other_http) == [http_ |-> other_http, heap |-> h]

\* http_ = nullptr; if (other.http_) http_ = other.http_->Clone();
CopyHttp(h, other_http) ==
  IF other_http = nullptr THEN [http_ |-> nullptr, heap |-> h]
  ELSE [http_ |-> New(h), heap |-> [h EXCEPT ![New(h)] = Clone(h[other_http])]]

\* The sessions are constructed as Client("localhost", 5001), timeout = "".
SessionTimeouts == {<<>>}
SessionPorts == {5001}

Quiet(s) == data[s].pc = "idle"

\* Client::Client(host, port, timeout, protocol, apiPath, verbose)
ConstructAs(s, port, timeout) ==
  /\ ~sess[s].live
  /\ sess' = [sess EXCEPT ![s] = [live |-> TRUE, http_ |-> New(heap),
                                  url_prefix_ |-> UrlPrefix(S_http, S_localhost, port, S_api),
                                  timeout_value_ |-> timeout]]
  /\ heap' = [heap EXCEPT ![New(heap)] = NewTransport]
  /\ ctl' = [ctl EXCEPT ![s] = "none"]
  /\ UNCHANGED <<data, opvars, urlvars>>

Construct(s) ==
  /\ ~sess[s].live
  /\ \E port \in SessionPorts, timeout \in SessionTimeouts : ConstructAs(s, port, timeout)

\* Client::Client(const Client& other)
CopyConstruct(s, other) ==
  /\ ~sess[s].live /\ sess[other].live
  /\ LET c == CopyHttp(heap, sess[other].http_) IN
       /\ sess' = [sess EXCEPT ![s] = [live |-> TRUE, http_ |-> c.http_,
                                      url_prefix_ |-> sess[other].url_prefix_,
                                      timeout_value_ |-> sess[other].timeout_value_]]
       /\ heap' = c.heap
  /\ ctl' = [ctl EXCEPT ![s] = "none"]
  /\ UNCHANGED <<data, opvars, urlvars>>

\* Client::Client(Client&& other): url_prefix_ and http_ are moved, and
\* timeout_value_ is default-constructed.
MoveConstruct(s, other) ==
  /\ ~sess[s].live /\ sess[other].live /\ Quiet(other)
  /\ sess' = [sess EXCEPT
       ![s] = [live |-> TRUE, http_ |-> sess[other].http_,
               url_prefix_ |-> sess[other].url_prefix_, timeout_value_ |-> <<>>],
       ![other] = [@ EXCEPT !.http_ = nullptr, !.url_prefix_ = <<>>]]
  /\ ctl' = [ctl EXCEPT ![s] = ctl[other], ![other] = "none"]
  /\ UNCHANGED <<heap, data, opvars, urlvars>>

\* Client::operator=(const Client& other)
CopyAssign(s, other) ==
  /\ sess[s].live /\ sess[other].live /\ Quiet(s)
  /\ IF s = other THEN UNCHANGED <<sess, heap, ctl>>
     ELSE LET c == CopyHttp(Delete(heap, sess[s].http_), sess[other].http_) IN
            /\ sess' = [sess EXCEPT ![s] = [live |-> TRUE, http_ |-> c.http_,
                                           url_prefix_ |-> sess[other].url_prefix_,
                                           timeout_value_ |-> sess[other].timeout_value_]]
            /\ heap' = c.heap
            /\ ctl' = [ctl EXCEPT ![s] = "none"]
  /\ UNCHANGED <<data, opvars, urlvars>>

\* Client::operator=(Client&& other)
MoveAssign(s, other) ==
  /\ sess[s].live /\ sess[other].live /\ Quiet(s) /\ Quiet(other)
  /\ IF s = other THEN UNCHANGED <<sess, heap, ctl>>
     ELSE /\ sess' = [sess EXCEPT
               ![s] = [live |-> TRUE, http_ |-> sess[other].http_,
                       url_prefix_ |-> sess[other].url_prefix_,
                       timeout_value_ |-> sess[other].timeout_value_],
               ![other] = [@ EXCEPT !.http_ = nullptr, !.url_prefix_ = <<>>,
                                    !.timeout_value_ = <<>>]]
          /\ heap' = Delete(heap, sess[s].http_)
          /\ ctl' = [ctl EXCEPT ![s] = ctl[other], ![other] = "none"]
  /\ UNCHANGED <<data, opvars, urlvars>>

\* Client::~Client()
Destroy(s) ==
  /\ sess[s].live /\ Quiet(s)
  /\ sess' = [sess EXCEPT ![s] = NoClient]
  /\ heap' = Delete(heap, sess[s].http_)
  /\ ctl' = [ctl EXCEPT ![s] = "none"]
  /\ UNCHANGED <<data, opvars, urlvars>>

(***************************************************************************)
(* Client: Abort, Reset and a data call, each from its own thread          *)
(***************************************************************************)
Usable(s) == sess[s].live /\ sess[s].http_ # nullptr

\* An Abort that resets instead.
ClientAbortResets(h, http_) == [h EXCEPT ![http_] = ResetFetch(h[http_])]

\* Client::Abort: http_->StopFetch()
ClientAbort(h, http_) == [h EXCEPT ![http_] = StopFetch(h[http_])]

\* Client::Reset: http_->ResetFetch()
ClientReset(h, http_) == [h EXCEPT ![http_] = ResetFetch(h[http_])]

Abort(s) ==
  /\ Usable(s)
  /\ heap' = ClientAbort(heap, sess[s].http_)
  /\ data' = [data EXCEPT ![s].aborted = (@ \/ data[s].pc = "fetching")]
  /\ ctl' = [ctl EXCEPT ![s] = "aborted"]
  /\ UNCHANGED <<sess, opvars, urlvars>>

Reset(s) ==
  /\ Usable(s)
  /\ heap' = ClientReset(heap, sess[s].http_)
  /\ ctl' = [ctl EXCEPT ![s] = IF @ = "none" THEN "none" ELSE "reset_after_abort"]
  /\ UNCHANGED <<sess, data, opvars, urlvars>>

\* What the network may give a data call: nothing, a document, a fragment.
DataReplies ==
  {NoNet, [ok |-> TRUE, body |-> <<T_Id, NL>>],
   [ok |-> TRUE, body |-> <<T_Malformed>>]}

\* Client::Id, up to the point where Transport::Fetch blocks (or refuses).
CallId(s) ==
  /\ Usable(s) /\ data[s].pc = "idle"
  /\ LET e == FetchEnter(heap[sess[s].http_]) IN
       /\ heap' = [heap EXCEPT ![sess[s].http_] = e.t]
       /\ data' = [data EXCEPT ![s] =
            IF e.refused
            THEN [NoData EXCEPT !.pc = "returned", !.startAborted = (ctl[s] = "aborted"),
                    !.outcome = FetchAndParseJson(NoNet, JNull).res]
            ELSE [NoData EXCEPT !.pc = "fetching", !.startAborted = (ctl[s] = "aborted")]]
  /\ UNCHANGED <<sess, ctl, opvars, urlvars>>

\* Transport::Fetch comes back and Client::Id runs to its end.
FetchReturns(s) ==
  /\ data[s].pc = "fetching"
  /\ \E net \in DataReplies : \E part \in 0..Len(net.body) :
       LET l == FetchLeave(heap[sess[s].http_], net, part)
           r == FetchAndParseJson(l.reply, JNull)
       IN /\ heap' = [heap EXCEPT ![sess[s].http_] = l.t]
          /\ data' = [data EXCEPT ![s].pc = "returned",
                                  ![s].net = IF l.reply = net THEN net ELSE NoNet,
                                  ![s].response = r.val, ![s].outcome = r.res]
  /\ UNCHANGED <<sess, ctl, opvars, urlvars>>

\* The caller goes on.
Resume(s) ==
  /\ data[s].pc = "returned"
  /\ data' = [data EXCEPT ![s] = NoData]
  /\ UNCHANGED <<sess, heap, ctl, opvars, urlvars>>

Next ==
  \/ \E s \in Sessions : Construct(s)
  \/ \E s, other \in Sessions : CopyConstruct(s, other)
  \/ \E s, other \in Sessions : MoveConstruct(s, other)
  \/ \E s, other \in Sessions : CopyAssign(s, other)
  \/ \E s, other \in Sessions : MoveAssign(s, other)
  \/ \E s \in Sessions : Destroy(s)
  \/ \E s \in Sessions : Abort(s)
  \/ \E s \in Sessions : Reset(s)
  \/ \E s \in Sessions : CallId(s)
  \/ \E s \in Sessions : FetchReturns(s)
  \/ \E s \in Sessions : Resume(s)

Spec == Init /\ [][Next]_vars

\* The network exchange of a call in flight ends: it completes, fails or is
\* interrupted.
FairSpec == Spec /\ \A s \in Sessions : WF_vars(FetchReturns(s))


(***************************************************************************)
(* Cancellation and ownership                                              *)
(***************************************************************************)
Returned(s) == data[s].pc = "returned"
Cancelled(s) ==
  /\ Returned(s)
  /\ data[s].outcome.kind = "TransportFailure"
  /\ data[s].response = JNull

\* The call of session s is blocked in Fetch and Abort has come meanwhile.
AbortedInFlight(s) == data[s].pc = "fetching" /\ data[s].aborted

\* C1: a data call that is in flight when Abort is invoked on its session
\* eventually returns, and when it returns it is with a transport failure
\* and nothing parsed from the part of the body that had arrived.
C1_AbortEndsCallInFlight ==
  /\ \A s \in Sessions : AbortedInFlight(s) ~> (Cancelled(s) /\ data[s].aborted)
  /\ [][\A s \in Sessions :
          (AbortedInFlight(s) /\ data'[s] # data[s]) =>
            (data'[s].aborted /\ data'[s].pc = "returned"
             /\ data'[s].outcome.kind = "TransportFailure"
             /\ data'[s].response = JNull)]_vars

C1_Witness ==
  \E s \in Sessions :
    /\ Cancelled(s) /\ data[s].aborted /\ ~data[s].startAborted
    /\ heap[sess[s].http_].stopped

\* The document a complete, well-formed reply body carries.
Carries(net, doc) ==
  /\ net.ok
  /\ \E d \in DOMAIN Documents : net.body = <<d, NL>> /\ doc = Documents[d]

\* C2: a data call issued after Abort and before any Reset fails; a call
\* issued when the latest of Abort and Reset is Reset (or neither was
\* invoked) is let through to the network and, left alone by Abort, returns
\* what the daemon's reply carries.
C2_AbortedUntilReset ==
  /\ [](\A s \in Sessions :
         /\ data[s].pc = "fetching" => ~data[s].startAborted
         /\ Returned(s) =>
              /\ data[s].startAborted => Cancelled(s)
              /\ (~data[s].startAborted /\ ~data[s].aborted) =>
                   \A doc \in {Documents[d] : d \in DOMAIN Documents} :
                     Carries(data[s].net, doc) =>
                       (data[s].outcome = Ok /\ data[s].response = doc))
  /\ [][\A s \in Sessions :
          (data[s].pc = "idle" /\ data'[s].pc # "idle") =>
            (data'[s].pc = "fetching" <=> ctl[s] # "aborted")]_vars

C2_Witness ==
  \E s \in Sessions :
    /\ Returned(s) /\ ctl[s] = "reset_after_abort"
    /\ ~data[s].startAborted /\ ~data[s].aborted
    /\ data[s].outcome = Ok /\ data[s].response = Documents[T_Id]

\* No two sessions hold the same Transport, and a held Transport exists.
NoSharedTransport ==
  \A s \in Sessions : Usable(s) =>
    /\ heap[sess[s].http_].alive
    /\ \A t \in Sessions \ {s} : sess[t].live => sess[t].http_ # sess[s].http_

\* The Transport a session's calls see.
Seen(h, s) == IF Usable(s) THEN h[sess[s].http_] ELSE NoTransport

\* C3: through construction, copy, move and assignment no two sessions
\* hold the same Transport, and an Abort on one session leaves the
\* Transport of every other session as it was.
C3_TransportIsPrivate ==
  /\ []NoSharedTransport
  /\ [][\A s \in Sessions :
          Abort(s) =>
            \A t \in Sessions \ {s} : Seen(heap', t) = Seen(heap, t)]_vars
  /\ [](\A s \in Sessions : Usable(s) =>
          (heap[sess[s].http_].stopped <=> ctl[s] = "aborted"))

C3_Witness ==
  \E s, t \in Sessions :
    /\ s # t /\ Usable(s) /\ Usable(t)
    /\ heap[sess[s].http_].stopped /\ ~heap[sess[t].http_].stopped
    /\ data[t].pc = "fetching" /\ heap[sess[t].http_].op = "running"


(***************************************************************************)
(* C12: the configuration of a session through copy and move               *)
(***************************************************************************)
\* A session constructed with any port and any timeout.
Configure(s) ==
  /\ ~sess[s].live
  /\ \E port \in Ports, timeout \in Timeouts : ConstructAs(s, port, timeout)

ConfigNext ==
  \/ \E s \in Sessions : Configure(s)
  \/ \E s, other \in Sessions : CopyConstruct(s, other)
  \/ \E s, other \in Sessions : MoveConstruct(s, other)
  \/ \E s, other \in Sessions : CopyAssign(s, other)
  \/ \E s, other \in Sessions : MoveAssign(s, other)
  \/ \E s \in Sessions : Destroy(s)

ConfigSpec == Init /\ [][ConfigNext]_vars

\* Two sessions build the same URL for every path and parameter list.
SameUrls(a, b) ==
  \A path \in Paths, parameters \in SeqsUpTo(ParamKeys \X ParamValues, 1) :
    MakeUrl(a.url_prefix_, a.timeout_value_, path, parameters)
      = MakeUrl(b.url_prefix_, b.timeout_value_, path, parameters)

CopyConstructKeepsConfig ==
  \A s, other \in Sessions :
    (s # other /\ CopyConstruct(s, other)) => SameUrls(sess'[s], sess[other])

CopyAssignKeepsConfig ==
  \A s, other \in Sessions :
    (s # other /\ CopyAssign(s, other)) => SameUrls(sess'[s], sess[other])

MoveAssignKeepsConfig ==
  \A s, other \in Sessions :
    (s # other /\ MoveAssign(s, other)) => SameUrls(sess'[s], sess[other])

MoveConstructKeepsConfig ==
  \A s, other \in Sessions :
    (s # other /\ MoveConstruct(s, other)) => SameUrls(sess'[s], sess[other])

\* C12: the session that a copy construction, a copy assignment, a move
\* construction or a move assignment produces builds, for every path and
\* parameter list, the URL that the original session built before the
\* operation: the same prefix and the same timeout parameter.
C12_CopyAndMoveKeepConfig ==
  [][/\ CopyConstructKeepsConfig
     /\ CopyAssignKeepsConfig
     /\ MoveAssignKeepsConfig
     /\ MoveConstructKeepsConfig]_vars

=============================================================================
